---- MODULE Spec2Model ----
(***************************************************************************)
(* Model of the owl modal editor (src/src/main.rs): the Editor struct, the *)
(* locals of run() that survive a loop iteration, and one action per arm   *)
(* of the event match in run().                                            *)
(*                                                                         *)
(* Text is a sequence of one-character strings.  A Rope operation that     *)
(* panics on an out-of-range index is modelled by the step that performs   *)
(* the assignments made before the panic and sets run to "panicked".       *)
(* Option<T> is the empty sequence (None) or a one-element sequence.       *)
(***************************************************************************)
EXTENDS Integers, Sequences, FiniteSets, TLC

\* ------------------------------------------------------------------ bounds
\* Largest number of chars the buffer holds in an editing session (Spec):
\* insertions are disabled beyond.
MaxChars == 3

\* The same for a session that saves and quits (SpecCmd).
MaxSavedChars == 1

\* ------------------------------------------------------- program constants
COMMAND_VIEW_ROWS == 2

\* --------------------------------------------------------------- messages
NL == "\n"
UnsavedMsg == <<"Unsaved changes! Save file with :w or force quit :q!">>
TooManyWriteMsg == <<"Too many args for :write">>
TooManyWqMsg == <<"Too many args for :wq">>
NoNameMsg == <<"Cannot save file without a name">>
UnrecognizedPrefix == <<"Unrecognized command ">>

\* format!("{:?} written", path): the path in double quotes, then " written"
WrittenMsg(path) == <<"\"">> \o path \o <<"\" written">>

\* ---------------------------------------------------------------- Option
None == <<>>
Some(x) == <<x>>

\* ----------------------------------------------------- environment inputs
\* Terminal sizes <<cols, rows>> that terminal::size() reports: in an
\* editing session, and in a session that saves and quits.
TermSizes == {<<3, 3>>, <<3, 4>>}
SavedTermSizes == {<<3, 4>>}

\* The one size of a terminal that is never resized.
FixedTermSizes == {<<3, 3>>}

\* Characters typed in Insert mode.
InsertChars == {"a"}

\* Files of the file system the session touches.
PathF == <<"f">>
PathG == <<"g">>
Paths == {PathF, PathG}

\* Contents of the file named on the command line, when one is named:
\* in an editing session, and in a session that saves and quits.
InitTexts == {<<>>, <<"a", NL, "a">>}
SavedInitTexts == {<<>>, <<"a">>}

\* Command lines the user types, character by character, after ':':
\* in a session that saves and quits, and in an editing session.
CommandLines ==
  { <<":">>,
    <<":", "q">>, <<":", "q", "!">>,
    <<":", "q", "u", "i", "t">>,
    <<":", "w">>, <<":", "w", "q">>,
    <<":", "w", "r", "i", "t", "e">>,
    <<":", "w", " ", "g">>,
    <<":", "w", " ", "g", " ", "g">>,
    <<":", "w", "q", " ", "g">>,
    <<":", "x", " ">> }
EditCommandLines == { <<":", "q">>, <<":", "x">> }

IsPrefix(s, t) == Len(s) <= Len(t) /\ SubSeq(t, 1, Len(s)) = s

\* The command buffer stays a prefix of a command line the user is typing.
Typeable(lines, s) == \E t \in lines : IsPrefix(s, t)

\* Characters typed in Command mode.
CommandChars == {"q", "!", "u", "i", "t", "w", "r", "e", " ", "g", "x"}

\* ------------------------------------------------------------------ Rope
Min(a, b) == IF a <= b THEN a ELSE b

len_chars(t) == Len(t)

\* Rope::len_lines: one more than the number of line breaks.
len_lines(t) == Cardinality({i \in 1..Len(t) : t[i] = NL}) + 1

\* Rope::line_to_char(i) for i <= len_lines: the offset of the first char of
\* line i; the offset one past the end of the text for i = len_lines.
line_to_char(t, i) ==
  IF i = 0 THEN 0
  ELSE IF i >= len_lines(t) THEN Len(t)
  ELSE CHOOSE p \in 1..Len(t) :
         /\ t[p] = NL
         /\ Cardinality({q \in 1..p : t[q] = NL}) = i

\* Rope::line(i) for i < len_lines, with its line break when it has one.
line(t, i) ==
  LET start == line_to_char(t, i)
      stop == line_to_char(t, i + 1)
  IN SubSeq(t, start + 1, stop)

\* Rope::insert_char(idx, c) for idx <= len_chars
insert_char(t, idx, c) == SubSeq(t, 1, idx) \o <<c>> \o SubSeq(t, idx + 1, Len(t))

\* Rope::remove(a..b) for a <= b <= len_chars
remove(t, a, b) == SubSeq(t, 1, a) \o SubSeq(t, b + 1, Len(t))

\* str::split_whitespace over a message: the maximal runs of non-blanks.
RECURSIVE split_whitespace(_)
split_whitespace(s) ==
  IF s = <<>> THEN <<>>
  ELSE IF Head(s) = " " THEN split_whitespace(Tail(s))
  ELSE LET n == CHOOSE k \in 1..Len(s) :
                  /\ \A j \in 1..k : s[j] # " "
                  /\ (k = Len(s) \/ s[k + 1] = " ")
       IN <<SubSeq(s, 1, n)>> \o split_whitespace(SubSeq(s, n + 1, Len(s)))

\* ----------------------------------------------------------------- state
VARIABLES
  text,             \* Editor.text
  filename,         \* Editor.filename : Option<PathBuf>
  cursor_col,       \* Editor.cursor_col
  cursor_row,       \* Editor.cursor_row
  shift_row,        \* Editor.shift_row
  mode,             \* Editor.mode
  cmd_message,      \* Editor.cmd_message
  dirty,            \* Editor.dirty
  prefered_col,     \* run(): prefered_col : Option<u16>
  prev_cursor_row,  \* run(): prev_cursor_row
  prev_cursor_col,  \* run(): prev_cursor_col
  cols,             \* run(): cols of terminal::size()
  rows,             \* run(): rows of terminal::size()
  ev,               \* run(): the event read in the latest iteration
  io,               \* outcome of the file write of the latest iteration
  disk,             \* the file system: path -> Option<contents>
  run,              \* "running", "terminated" (loop left), "panicked"
  pre_insert        \* text and cursor before the insertion of the latest
                    \* iteration, kept over a Backspace that follows it

edvars == <<text, filename, cursor_col, cursor_row, shift_row, mode,
            cmd_message, dirty>>
vars == <<text, filename, cursor_col, cursor_row, shift_row, mode,
          cmd_message, dirty, prefered_col, prev_cursor_row, prev_cursor_col,
          cols, rows, ev, io, disk, run, pre_insert>>

\* Editor::currline / Editor::line_max on the line under the cursor
CurLine == shift_row + cursor_row
LineValid == CurLine < len_lines(text)
currline(t, i) ==
  LET l == line(t, i)
  IN IF l # <<>> /\ l[Len(l)] = NL THEN SubSeq(l, 1, Len(l) - 1) ELSE l
line_max(t, i) == Len(currline(t, i))

\* Events
Key(c) == <<"Char", c>>
Esc == <<"Esc">>
Enter == <<"Enter">>
Backspace == <<"Backspace">>
Resize == <<"Resize">>
Other == <<"Other">>

ResetPrefered_keep(c) == prefered_col

\* run(): a Char key other than j and k forgets the preferred column.
ResetPrefered(c) == IF c # "j" /\ c # "k" THEN None ELSE prefered_col

Startup(texts, sizes) ==
  /\ \E sz \in sizes : cols = sz[1] /\ rows = sz[2]
  /\ \/ /\ filename = None
        /\ text = <<>>
        /\ disk = [p \in Paths |-> None]
     \/ \E t \in texts :
          /\ filename = Some(PathF)
          /\ text = t
          /\ disk = [p \in Paths |-> IF p = PathF THEN Some(t) ELSE None]
  /\ cursor_col = 0
  /\ cursor_row = 0
  /\ shift_row = 0
  /\ mode = "Normal"
  /\ cmd_message = <<>>
  /\ dirty = FALSE
  /\ prefered_col = None
  /\ prev_cursor_row = 0
  /\ prev_cursor_col = 0
  /\ ev = <<>>
  /\ io = "none"
  /\ run = "running"
  /\ pre_insert = None

\* ------------------------------------------------------- Normal: motions
\* (Char('h'), "Normal")
h_col(c) == IF c # 0 THEN c - 1 ELSE c

KeyH ==
  /\ run = "running" /\ mode = "Normal"
  /\ ev' = Key("h") /\ io' = "none"
  /\ pre_insert' = None
  /\ prefered_col' = ResetPrefered("h")
  /\ cursor_col' = h_col(cursor_col)
  /\ UNCHANGED <<text, filename, cursor_row, shift_row, mode, cmd_message,
                 dirty, prev_cursor_row, prev_cursor_col, cols, rows, disk, run>>

\* (Char('l'), "Normal"): the second conjunct of the test is evaluated, and
\* line_max can panic, only when the first holds.
l_moves_nobound(c) == c # cols - 1

l_moves(c) == c # cols - 1 /\ c < line_max(text, CurLine)

KeyL ==
  /\ run = "running" /\ mode = "Normal"
  /\ ev' = Key("l") /\ io' = "none"
  /\ pre_insert' = None
  /\ prefered_col' = ResetPrefered("l")
  /\ IF cursor_col # cols - 1 /\ ~LineValid
       THEN run' = "panicked" /\ cursor_col' = cursor_col
       ELSE /\ run' = run
            /\ cursor_col' = IF l_moves(cursor_col) THEN cursor_col + 1
                                                   ELSE cursor_col
  /\ UNCHANGED <<text, filename, cursor_row, shift_row, mode, cmd_message,
                 dirty, prev_cursor_row, prev_cursor_col, cols, rows, disk>>

\* prefered_col after the capture at the head of the j and k arms
captured_always == Some(cursor_col)

captured == IF prefered_col = None THEN Some(cursor_col) ELSE prefered_col

sticky_col_noclamp(pc, t, i) == pc[1]

\* cursor_col = prefered_col.unwrap().min(editor.line_max()) on the new line
sticky_col(pc, t, i) == Min(pc[1], line_max(t, i))

\* The tail of the j and k arms, for the new cursor_row and shift_row.
VerticalTail(row, shift) ==
  /\ prefered_col' = captured
  /\ cursor_row' = row
  /\ shift_row' = shift
  /\ IF shift + row < len_lines(text)
       THEN run' = run /\ cursor_col' = sticky_col(captured, text, shift + row)
       ELSE run' = "panicked" /\ cursor_col' = cursor_col

\* (Char('j'), "Normal")
j_down == /\ cursor_row # rows - 1 - COMMAND_VIEW_ROWS
          /\ cursor_row + 1 < len_lines(text)
j_scroll == shift_row + rows - COMMAND_VIEW_ROWS < len_lines(text) - 1

KeyJ ==
  /\ run = "running" /\ mode = "Normal"
  /\ ev' = Key("j") /\ io' = "none"
  /\ pre_insert' = None
  /\ VerticalTail(IF j_down THEN cursor_row + 1 ELSE cursor_row,
                  IF ~j_down /\ j_scroll THEN shift_row + 1 ELSE shift_row)
  /\ UNCHANGED <<text, filename, mode, cmd_message, dirty, prev_cursor_row,
                 prev_cursor_col, cols, rows, disk>>

\* (Char('k'), "Normal")
KeyK ==
  /\ run = "running" /\ mode = "Normal"
  /\ ev' = Key("k") /\ io' = "none"
  /\ pre_insert' = None
  /\ VerticalTail(IF cursor_row # 0 THEN cursor_row - 1 ELSE cursor_row,
                  IF cursor_row = 0 /\ shift_row # 0 THEN shift_row - 1
                                                     ELSE shift_row)
  /\ UNCHANGED <<text, filename, mode, cmd_message, dirty, prev_cursor_row,
                 prev_cursor_col, cols, rows, disk>>

\* ------------------------------------------------- Normal: enter Command
KeyColon_col0 ==
  /\ run = "running" /\ mode = "Normal"
  /\ ev' = Key(":") /\ io' = "none"
  /\ pre_insert' = None
  /\ prefered_col' = ResetPrefered(":")
  /\ mode' = "Command"
  /\ cmd_message' = <<":">>
  /\ prev_cursor_col' = cursor_col
  /\ prev_cursor_row' = cursor_row
  /\ cursor_row' = rows - 1
  /\ cursor_col' = 0
  /\ UNCHANGED <<text, filename, shift_row, dirty, cols, rows, disk, run>>

\* (Char(':'), "Normal")
KeyColon ==
  /\ run = "running" /\ mode = "Normal"
  /\ ev' = Key(":") /\ io' = "none"
  /\ pre_insert' = None
  /\ prefered_col' = ResetPrefered(":")
  /\ mode' = "Command"
  /\ cmd_message' = <<":">>
  /\ prev_cursor_col' = cursor_col
  /\ prev_cursor_row' = cursor_row
  /\ cursor_row' = rows - 1
  /\ cursor_col' = 1
  /\ UNCHANGED <<text, filename, shift_row, dirty, cols, rows, disk, run>>

\* ---------------------------------------------------------------- Command
\* (Char(c), "Command")
KeyCharCommand(lines) ==
  /\ run = "running" /\ mode = "Command"
  /\ \E c \in CommandChars :
       /\ ev' = Key(c) /\ io' = "none"
       /\ pre_insert' = None
       /\ prefered_col' = ResetPrefered(c)
       /\ IF cursor_col <= len_chars(cmd_message)
            THEN /\ Typeable(lines, insert_char(cmd_message, cursor_col, c))
                 /\ cmd_message' = insert_char(cmd_message, cursor_col, c)
                 /\ cursor_col' = cursor_col + 1
                 /\ run' = run
            ELSE /\ run' = "panicked"
                 /\ UNCHANGED <<cmd_message, cursor_col>>
  /\ UNCHANGED <<text, filename, cursor_row, shift_row, mode, dirty,
                 prev_cursor_row, prev_cursor_col, cols, rows, disk>>

KeyBackspaceCommand_abort_early ==
  /\ run = "running" /\ mode = "Command"
  /\ ev' = Backspace /\ io' = "none"
  /\ pre_insert' = None
  /\ IF cursor_col <= 2
       THEN /\ mode' = "Normal"
            /\ cmd_message' = <<>>
            /\ cursor_col' = prev_cursor_col
            /\ cursor_row' = prev_cursor_row
            /\ run' = run
       ELSE /\ cmd_message' = remove(cmd_message, cursor_col - 1, cursor_col)
            /\ cursor_col' = cursor_col - 1
            /\ run' = run
            /\ UNCHANGED <<mode, cursor_row>>
  /\ UNCHANGED <<text, filename, shift_row, dirty, prefered_col,
                 prev_cursor_row, prev_cursor_col, cols, rows, disk>>

\* (Backspace, "Command")
KeyBackspaceCommand ==
  /\ run = "running" /\ mode = "Command"
  /\ ev' = Backspace /\ io' = "none"
  /\ pre_insert' = None
  /\ IF cursor_col = 1
       THEN /\ mode' = "Normal"
            /\ cmd_message' = <<>>
            /\ cursor_col' = prev_cursor_col
            /\ cursor_row' = prev_cursor_row
            /\ run' = run
       ELSE IF cursor_col >= 1 /\ cursor_col <= len_chars(cmd_message)
         THEN /\ cmd_message' = remove(cmd_message, cursor_col - 1, cursor_col)
              /\ cursor_col' = cursor_col - 1
              /\ run' = run
              /\ UNCHANGED <<mode, cursor_row>>
         ELSE /\ run' = "panicked"
              /\ UNCHANGED <<mode, cmd_message, cursor_col, cursor_row>>
  /\ UNCHANGED <<text, filename, shift_row, dirty, prefered_col,
                 prev_cursor_row, prev_cursor_col, cols, rows, disk>>

KeyEscCommand_norestore ==
  /\ run = "running" /\ mode = "Command"
  /\ ev' = Esc /\ io' = "none"
  /\ pre_insert' = None
  /\ mode' = "Normal"
  /\ cmd_message' = <<>>
  /\ UNCHANGED <<text, filename, cursor_col, cursor_row, shift_row, dirty,
                 prefered_col, prev_cursor_row, prev_cursor_col, cols, rows,
                 disk, run>>

\* (Esc, "Command")
KeyEscCommand ==
  /\ run = "running" /\ mode = "Command"
  /\ ev' = Esc /\ io' = "none"
  /\ pre_insert' = None
  /\ mode' = "Normal"
  /\ cmd_message' = <<>>
  /\ cursor_col' = prev_cursor_col
  /\ cursor_row' = prev_cursor_row
  /\ UNCHANGED <<text, filename, shift_row, dirty, prefered_col,
                 prev_cursor_row, prev_cursor_col, cols, rows, disk, run>>

\* Outcomes of File::create followed by Rope::write_to
IoOutcomes == {"ok", "create_failed", "write_failed"}

\* Editor::save, the file system answering o, msg being cmd_message at the
\* call.  Both unwraps panic on an Err; a file that was created and then
\* not written is left empty.  The result is save_result.
save_result_always(o) == TRUE

save_result(o) == filename' # None /\ o = "ok"

save(msg, o) ==
  IF filename' # None
    THEN /\ io' = o
         /\ disk' = IF o = "ok"
                      THEN [disk EXCEPT ![filename'[1]] = Some(text)]
                    ELSE IF o = "write_failed"
                      THEN [disk EXCEPT ![filename'[1]] = Some(<<>>)]
                    ELSE disk
         /\ cmd_message' = IF o = "ok" THEN WrittenMsg(filename'[1]) ELSE msg
         /\ dirty' = IF o = "ok" THEN FALSE ELSE dirty
    ELSE /\ io' = "none"
         /\ disk' = disk
         /\ cmd_message' = NoNameMsg
         /\ dirty' = dirty

save_panics(o) == filename' # None /\ o # "ok"

W_Q == <<":", "q">>
W_QUIT == <<":", "q", "u", "i", "t">>
W_FORCE == <<":", "q", "!">>
W_W == <<":", "w">>
W_WRITE == <<":", "w", "r", "i", "t", "e">>
W_WQ == <<":", "w", "q">>

\* words[0] == ":q" || words[0] == ":quit"
quit_refused_never == FALSE

quit_refused == dirty

CmdQuit(words) ==
  /\ words[1] \in {W_Q, W_QUIT}
  /\ IF quit_refused
       THEN cmd_message' = UnsavedMsg /\ mode' = "Normal" /\ run' = run
       ELSE cmd_message' = cmd_message /\ mode' = mode /\ run' = "terminated"
  /\ io' = "none"
  /\ UNCHANGED <<filename, dirty, disk>>

CmdForceQuit_guarded(words) ==
  /\ words[1] = W_FORCE
  /\ IF dirty
       THEN cmd_message' = UnsavedMsg /\ mode' = "Normal" /\ run' = run
       ELSE cmd_message' = cmd_message /\ mode' = mode /\ run' = "terminated"
  /\ io' = "none"
  /\ UNCHANGED <<filename, dirty, disk>>

\* words[0] == ":q!"
CmdForceQuit(words) ==
  /\ words[1] = W_FORCE
  /\ run' = "terminated"
  /\ io' = "none"
  /\ UNCHANGED <<filename, dirty, disk, cmd_message, mode>>

\* the file name after the argument check of :w and :wq
named_keep(words) == filename

named(words) == IF Len(words) = 2 THEN Some(words[2]) ELSE filename

\* words[0] == ":w" || words[0] == ":write"
CmdWrite(words) ==
  /\ words[1] \in {W_W, W_WRITE}
  /\ filename' = named(words)
  /\ mode' = "Normal"
  /\ \E o \in IoOutcomes :
       /\ save(IF Len(words) > 2 THEN TooManyWriteMsg ELSE cmd_message, o)
       /\ run' = IF save_panics(o) THEN "panicked" ELSE run

\* words[0] == ":wq"
CmdWriteQuit(words) ==
  /\ words[1] = W_WQ
  /\ filename' = named(words)
  /\ \E o \in IoOutcomes :
       /\ save(IF Len(words) > 2 THEN TooManyWqMsg ELSE cmd_message, o)
       /\ run' = IF save_panics(o) THEN "panicked"
                 ELSE IF save_result(o) THEN "terminated" ELSE run
       /\ mode' = IF save_panics(o) \/ save_result(o) THEN mode ELSE "Normal"

CmdUnknown_noecho(words) ==
  /\ words[1] \notin {W_Q, W_QUIT, W_FORCE, W_W, W_WRITE, W_WQ}
  /\ mode' = "Normal"
  /\ cmd_message' = UnrecognizedPrefix \o words[1]
  /\ io' = "none"
  /\ UNCHANGED <<filename, dirty, disk, run>>

\* the final else of the command dispatch
CmdUnknown(words) ==
  /\ words[1] \notin {W_Q, W_QUIT, W_FORCE, W_W, W_WRITE, W_WQ}
  /\ mode' = "Normal"
  /\ cmd_message' = UnrecognizedPrefix \o cmd_message
  /\ io' = "none"
  /\ UNCHANGED <<filename, dirty, disk, run>>

\* (Enter, "Command")
KeyEnterCommand ==
  /\ run = "running" /\ mode = "Command"
  /\ ev' = Enter
  /\ pre_insert' = None
  /\ cursor_col' = prev_cursor_col
  /\ cursor_row' = prev_cursor_row
  /\ LET words == split_whitespace(cmd_message)
     IN IF words = <<>>
          THEN /\ run' = "panicked" /\ io' = "none"
               /\ UNCHANGED <<filename, dirty, disk, cmd_message, mode>>
          ELSE \/ CmdQuit(words)
               \/ CmdForceQuit(words)
               \/ CmdWrite(words)
               \/ CmdWriteQuit(words)
               \/ CmdUnknown(words)
  /\ UNCHANGED <<text, shift_row, prefered_col, prev_cursor_row,
                 prev_cursor_col, cols, rows>>

\* -------------------------------------------------- Normal: enter Insert
\* (Char('i'), "Normal")
KeyI ==
  /\ run = "running" /\ mode = "Normal"
  /\ ev' = Key("i") /\ io' = "none"
  /\ pre_insert' = None
  /\ prefered_col' = ResetPrefered("i")
  /\ mode' = "Insert"
  /\ cmd_message' = <<>>
  /\ UNCHANGED <<text, filename, cursor_col, cursor_row, shift_row, dirty,
                 prev_cursor_row, prev_cursor_col, cols, rows, disk, run>>

\* (Char('a'), "Normal")
KeyA ==
  /\ run = "running" /\ mode = "Normal"
  /\ ev' = Key("a") /\ io' = "none"
  /\ pre_insert' = None
  /\ prefered_col' = ResetPrefered("a")
  /\ mode' = "Insert"
  /\ IF LineValid
       THEN /\ cursor_col' = Min(cursor_col + 1, line_max(text, CurLine))
            /\ cmd_message' = <<>>
            /\ run' = run
       ELSE /\ run' = "panicked"
            /\ UNCHANGED <<cursor_col, cmd_message>>
  /\ UNCHANGED <<text, filename, cursor_row, shift_row, dirty,
                 prev_cursor_row, prev_cursor_col, cols, rows, disk>>

\* (Char('I'), "Normal")
KeyShiftI ==
  /\ run = "running" /\ mode = "Normal"
  /\ ev' = Key("I") /\ io' = "none"
  /\ pre_insert' = None
  /\ prefered_col' = ResetPrefered("I")
  /\ mode' = "Insert"
  /\ cursor_col' = 0
  /\ cmd_message' = <<>>
  /\ UNCHANGED <<text, filename, cursor_row, shift_row, dirty,
                 prev_cursor_row, prev_cursor_col, cols, rows, disk, run>>

\* (Char('A'), "Normal")
KeyShiftA ==
  /\ run = "running" /\ mode = "Normal"
  /\ ev' = Key("A") /\ io' = "none"
  /\ pre_insert' = None
  /\ prefered_col' = ResetPrefered("A")
  /\ mode' = "Insert"
  /\ IF LineValid
       THEN /\ cursor_col' = line_max(text, CurLine)
            /\ cmd_message' = <<>>
            /\ run' = run
       ELSE /\ run' = "panicked"
            /\ UNCHANGED <<cursor_col, cmd_message>>
  /\ UNCHANGED <<text, filename, cursor_row, shift_row, dirty,
                 prev_cursor_row, prev_cursor_col, cols, rows, disk>>

\* cursor_pos = text.line_to_char(cursor_row + shift_row) + col
cursor_pos(col) == line_to_char(text, CurLine) + col

\* (Char('o'), "Normal")
KeyO(max) ==
  /\ run = "running" /\ mode = "Normal"
  /\ Len(text) < max
  /\ ev' = Key("o") /\ io' = "none"
  /\ pre_insert' = None
  /\ prefered_col' = ResetPrefered("o")
  /\ mode' = "Insert"
  /\ IF LineValid
       THEN /\ dirty' = TRUE
            /\ text' = insert_char(text, cursor_pos(line_max(text, CurLine)), NL)
            /\ cursor_row' = cursor_row + 1
            /\ cursor_col' = 0
            /\ cmd_message' = <<>>
            /\ run' = run
       ELSE /\ run' = "panicked"
            /\ UNCHANGED <<dirty, text, cursor_row, cursor_col, cmd_message>>
  /\ UNCHANGED <<filename, shift_row, prev_cursor_row, prev_cursor_col,
                 cols, rows, disk>>

\* (Char('O'), "Normal")
KeyShiftO(max) ==
  /\ run = "running" /\ mode = "Normal"
  /\ Len(text) < max
  /\ ev' = Key("O") /\ io' = "none"
  /\ pre_insert' = None
  /\ prefered_col' = ResetPrefered("O")
  /\ mode' = "Insert"
  /\ cursor_col' = 0
  /\ IF CurLine <= len_lines(text)
       THEN /\ dirty' = TRUE
            /\ text' = insert_char(text, cursor_pos(0), NL)
            /\ cmd_message' = <<>>
            /\ run' = run
       ELSE /\ run' = "panicked"
            /\ UNCHANGED <<dirty, text, cmd_message>>
  /\ UNCHANGED <<filename, cursor_row, shift_row, prev_cursor_row,
                 prev_cursor_col, cols, rows, disk>>

\* ----------------------------------------------------------------- Insert
\* (Esc, "Insert")
KeyEscInsert ==
  /\ run = "running" /\ mode = "Insert"
  /\ ev' = Esc /\ io' = "none"
  /\ pre_insert' = None
  /\ mode' = "Normal"
  /\ cmd_message' = <<>>
  /\ UNCHANGED <<text, filename, cursor_col, cursor_row, shift_row, dirty,
                 prefered_col, prev_cursor_row, prev_cursor_col, cols, rows,
                 disk, run>>

\* The common part of (Char(c), "Insert") and (Enter, "Insert"): insert c at
\* the cursor and put the cursor at <<row, col>>.
InsertAtCursor(c, row, col) ==
  IF CurLine <= len_lines(text)
    THEN /\ dirty' = TRUE
         /\ IF cursor_pos(cursor_col) <= len_chars(text)
              THEN /\ text' = insert_char(text, cursor_pos(cursor_col), c)
                   /\ cursor_row' = row
                   /\ cursor_col' = col
                   /\ run' = run
              ELSE /\ run' = "panicked"
                   /\ UNCHANGED <<text, cursor_row, cursor_col>>
    ELSE /\ run' = "panicked"
         /\ UNCHANGED <<dirty, text, cursor_row, cursor_col>>

\* (Char(c), "Insert")
KeyCharInsert(max) ==
  /\ run = "running" /\ mode = "Insert"
  /\ Len(text) < max
  /\ \E c \in InsertChars :
       /\ ev' = Key(c) /\ io' = "none"
       /\ pre_insert' = Some(<<text, cursor_row, cursor_col>>)
       /\ prefered_col' = ResetPrefered(c)
       /\ InsertAtCursor(c, cursor_row, cursor_col + 1)
  /\ UNCHANGED <<filename, shift_row, mode, cmd_message, prev_cursor_row,
                 prev_cursor_col, cols, rows, disk>>

\* (Enter, "Insert")
KeyEnterInsert(max) ==
  /\ run = "running" /\ mode = "Insert"
  /\ Len(text) < max
  /\ ev' = Enter /\ io' = "none"
  /\ pre_insert' = Some(<<text, cursor_row, cursor_col>>)
  /\ InsertAtCursor(NL, cursor_row + 1, 0)
  /\ UNCHANGED <<filename, shift_row, mode, cmd_message, prefered_col,
                 prev_cursor_row, prev_cursor_col, cols, rows, disk>>

\* The events of the inserting arms of Insert mode.
Insertions == {Key(c) : c \in InsertChars} \cup {Enter}

backspace_ignored_col0 == cursor_col = 0

\* (Backspace, "Insert"): the test that makes the key do nothing
backspace_ignored == cursor_col = 0 /\ cursor_row = 0

\* (Backspace, "Insert"): editor.dirty after the arm
backspace_dirty == dirty

KeyBackspaceInsert ==
  /\ run = "running" /\ mode = "Insert"
  /\ ev' = Backspace /\ io' = "none"
  /\ pre_insert' = IF ev \in Insertions THEN pre_insert ELSE None
  /\ IF backspace_ignored
       THEN UNCHANGED <<text, cursor_row, cursor_col, dirty, run>>
     ELSE IF CurLine > len_lines(text)
       THEN run' = "panicked" /\ UNCHANGED <<text, cursor_row, cursor_col, dirty>>
     ELSE LET pos == cursor_pos(cursor_col)
              row == IF cursor_col # 0 THEN cursor_row ELSE cursor_row - 1
          IN /\ cursor_row' = row
             /\ IF cursor_col # 0
                  THEN /\ cursor_col' = cursor_col - 1
                       /\ IF pos >= 1 /\ pos <= len_chars(text)
                            THEN /\ text' = remove(text, pos - 1, pos)
                                 /\ dirty' = backspace_dirty
                                 /\ run' = run
                            ELSE /\ run' = "panicked"
                                 /\ UNCHANGED <<text, dirty>>
                ELSE IF shift_row + row < len_lines(text)
                  THEN /\ cursor_col' = line_max(text, shift_row + row)
                       /\ IF pos >= 1 /\ pos <= len_chars(text)
                            THEN /\ text' = remove(text, pos - 1, pos)
                                 /\ dirty' = backspace_dirty
                                 /\ run' = run
                            ELSE /\ run' = "panicked"
                                 /\ UNCHANGED <<text, dirty>>
                ELSE /\ run' = "panicked"
                     /\ UNCHANGED <<text, cursor_col, dirty>>
  /\ UNCHANGED <<filename, shift_row, mode, cmd_message, prefered_col,
                 prev_cursor_row, prev_cursor_col, cols, rows, disk>>

\* ------------------------------------------------- keys without an effect
\* (Char('q'), "Normal") and the `_` arm of the key match
Tab == <<"Tab">>
IgnoredKeys ==
  IF mode = "Normal" THEN {Key("q"), Key("x"), Esc, Enter, Backspace, Tab}
  ELSE {Tab}

KeyIgnored ==
  /\ run = "running"
  /\ \E k \in IgnoredKeys :
       /\ ev' = k
       /\ pre_insert' = None
       /\ prefered_col' = IF k[1] = "Char" THEN ResetPrefered(k[2])
                                           ELSE prefered_col
  /\ io' = "none"
  /\ UNCHANGED <<text, filename, cursor_col, cursor_row, shift_row, mode,
                 cmd_message, dirty, prev_cursor_row, prev_cursor_col,
                 cols, rows, disk, run>>

\* Event::Resize(_, _): nothing in the arm; the next iteration reads the
\* new terminal::size().
EvResize(sizes) ==
  /\ run = "running"
  /\ ev' = Resize /\ io' = "none"
  /\ pre_insert' = None
  /\ \E sz \in sizes : cols' = sz[1] /\ rows' = sz[2]
  /\ UNCHANGED <<text, filename, cursor_col, cursor_row, shift_row, mode,
                 cmd_message, dirty, prefered_col, prev_cursor_row,
                 prev_cursor_col, disk, run>>

\* any other event: break
EvOther ==
  /\ run = "running"
  /\ ev' = Other /\ io' = "none"
  /\ pre_insert' = None
  /\ run' = "terminated"
  /\ UNCHANGED <<text, filename, cursor_col, cursor_row, shift_row, mode,
                 cmd_message, dirty, prefered_col, prev_cursor_row,
                 prev_cursor_col, cols, rows, disk>>

\* One iteration of the loop of run(), the buffer holding at most max chars,
\* the user typing the command lines of the set lines and the terminal
\* taking the sizes of the set sizes.
Step(max, lines, sizes) ==
  \/ KeyH \/ KeyL \/ KeyJ \/ KeyK
  \/ KeyColon \/ KeyCharCommand(lines) \/ KeyBackspaceCommand
  \/ KeyEscCommand \/ KeyEnterCommand
  \/ KeyI \/ KeyA \/ KeyShiftI \/ KeyShiftA \/ KeyO(max) \/ KeyShiftO(max)
  \/ KeyEscInsert \/ KeyCharInsert(max) \/ KeyEnterInsert(max)
  \/ KeyBackspaceInsert
  \/ KeyIgnored \/ EvResize(sizes) \/ EvOther

\* An editing session.
Init == Startup(InitTexts, TermSizes)
Next == Step(MaxChars, EditCommandLines, TermSizes)
Spec == Init /\ [][Next]_vars

\* A session that saves and quits.
InitCmd == Startup(SavedInitTexts, SavedTermSizes)
NextCmd == Step(MaxSavedChars, CommandLines, SavedTermSizes)
SpecCmd == InitCmd /\ [][NextCmd]_vars

\* An editing session in a terminal whose size stays the same: a resize
\* event reports the size the terminal already has.
InitFixed == Startup(InitTexts, FixedTermSizes)
NextFixed == Step(MaxChars, EditCommandLines, FixedTermSizes)
SpecFixed == InitFixed /\ [][NextFixed]_vars

\* ================================================================ claims
\* The loop is about to run a command line whose first word is in ws, and
\* the event it reads is Enter.
Executes(ws) ==
  /\ run = "running" /\ mode = "Command" /\ ev' = Enter
  /\ split_whitespace(cmd_message) # <<>>
  /\ split_whitespace(cmd_message)[1] \in ws

ArgCount == Len(split_whitespace(cmd_message)) - 1

\* C1: dirty is true exactly when the buffer text was mutated since the last
\* successful save (or startup).  Stated step by step: a step that changes
\* the text leaves dirty true, a step that saves leaves it false, and any
\* other step keeps it.
C1_DirtyIffUnsavedMutation ==
  [][ /\ (text' # text => dirty')
      /\ (io' = "ok" => ~dirty')
      /\ (text' = text /\ io' # "ok" => dirty' = dirty) ]_vars

\* C2: :q and :quit with dirty set do not terminate: the mode becomes
\* Normal, the message is the unsaved-changes warning, buffer and dirty are
\* unchanged; :q and :quit terminate only when dirty is false.
C2_QuitRefusedWhenDirty ==
  [][ Executes({W_Q, W_QUIT}) =>
        /\ dirty => /\ run' = "running"
                    /\ mode' = "Normal"
                    /\ cmd_message' = UnsavedMsg
                    /\ text' = text
                    /\ dirty' = dirty
        /\ run' = "terminated" => ~dirty ]_vars

C2_Witness ==
  /\ ev = Enter /\ run = "running" /\ mode = "Normal"
  /\ cmd_message = UnsavedMsg /\ dirty

\* C3: :w and :write with more than one argument set the too-many-arguments
\* message and do not save: nothing is written, dirty and the file path keep
\* their values, and the message shown afterwards is the too-many one.
C3_TooManyArgsDoesNotSave ==
  [][ Executes({W_W, W_WRITE}) /\ ArgCount > 1 =>
        /\ io' = "none"
        /\ disk' = disk
        /\ dirty' = dirty
        /\ filename' = filename
        /\ cmd_message' = TooManyWriteMsg ]_vars

\* C4: :w <path> makes <path> the file path and attempts the write; :w with
\* a file path already set attempts it on that path.  When the file system
\* reports success the file holds exactly the buffer, dirty is cleared,
\* the message names the file, the mode is Normal and the session goes on.
C4_WriteSaves ==
  [][ /\ Executes({W_W, W_WRITE})
      /\ (ArgCount = 1 \/ (ArgCount = 0 /\ filename # None))
      => LET p == IF ArgCount = 1 THEN split_whitespace(cmd_message)[2]
                                  ELSE filename[1]
         IN /\ filename' = Some(p)
            /\ io' # "none"
            /\ mode' = "Normal"
            /\ text' = text
            /\ io' = "ok" =>
                 /\ disk' = [disk EXCEPT ![p] = Some(text)]
                 /\ ~dirty'
                 /\ cmd_message' = WrittenMsg(p)
                 /\ run' = "running" ]_vars

C4_Witness ==
  /\ ev = Enter /\ io = "ok" /\ run = "running" /\ mode = "Normal"
  /\ disk[PathF] # None
  /\ filename = Some(PathG)
  /\ text # <<>> /\ disk[PathG] = Some(text)
  /\ cmd_message = WrittenMsg(PathG) /\ ~dirty

\* C5: with no file path set and none given, :w, :write and :wq write
\* nothing, keep dirty, set an error message, go to Normal mode and do not
\* terminate.
C5_SaveWithoutNameFails ==
  [][ Executes({W_W, W_WRITE, W_WQ}) /\ ArgCount = 0 /\ filename = None =>
        /\ io' = "none"
        /\ disk' = disk
        /\ dirty' = dirty
        /\ text' = text
        /\ filename' = None
        /\ cmd_message' = NoNameMsg
        /\ mode' = "Normal"
        /\ run' = "running" ]_vars

C5_Witness ==
  /\ ev = Enter /\ run = "running" /\ mode = "Normal"
  /\ filename = None /\ dirty /\ cmd_message = NoNameMsg

\* C6: a write that fails with an I/O error during :w or :wq is recovered
\* from: a status message is set, dirty and the buffer are unchanged, the
\* mode is Normal and the session keeps running.
C6_WriteFailureRecoverable ==
  [][ Executes({W_W, W_WRITE, W_WQ}) /\ io' \in {"create_failed", "write_failed"}
      => /\ run' = "running"
         /\ mode' = "Normal"
         /\ text' = text
         /\ dirty' = dirty
         /\ cmd_message' # cmd_message ]_vars

\* C7: in every Normal or Insert state shift_row + cursor_row is a valid
\* line index of the buffer.
C7_CursorLineValid ==
  mode \in {"Normal", "Insert"} =>
    0 <= shift_row + cursor_row /\ shift_row + cursor_row < len_lines(text)

\* C8: h and l in Normal mode, from a cursor_col within
\* [0, current line length], leave cursor_col within that range; h at
\* column 0 and l at the line end change nothing of the editor.
C8_HorizontalStaysInLine ==
  [][ /\ run = "running" /\ mode = "Normal"
      /\ ev' \in {Key("h"), Key("l")}
      /\ LineValid /\ cursor_col <= line_max(text, CurLine)
      => /\ run' = "running"
         /\ 0 <= cursor_col'
         /\ cursor_col' <= line_max(text', shift_row' + cursor_row')
         /\ ev' = Key("h") /\ cursor_col = 0 => UNCHANGED edvars
         /\ ev' = Key("l") /\ cursor_col = line_max(text, CurLine)
              => UNCHANGED edvars ]_vars

C8_Witness ==
  /\ ev = Key("l") /\ run = "running" /\ mode = "Normal" /\ LineValid
  /\ 0 < cursor_col /\ cursor_col < cols - 1
  /\ cursor_col = line_max(text, CurLine)

\* C9: the first j or k of a run captures cursor_col as the preferred
\* column, later ones keep it, and after each completed move cursor_col is
\* the smaller of it and the length of the line moved to; h and l clear it.
C9_StickyColumn ==
  [][ run = "running" /\ mode = "Normal" =>
        /\ ev' \in {Key("j"), Key("k")} =>
             /\ prefered_col' = IF prefered_col = None THEN Some(cursor_col)
                                                       ELSE prefered_col
             /\ run' = "running" =>
                  cursor_col' = Min(prefered_col'[1],
                                    line_max(text', shift_row' + cursor_row'))
        /\ ev' \in {Key("h"), Key("l")} => prefered_col' = None ]_vars

C9_Witness ==
  /\ ev \in {Key("j"), Key("k")} /\ run = "running" /\ mode = "Normal"
  /\ prefered_col # None /\ prefered_col[1] > cursor_col
  /\ LineValid /\ cursor_col = line_max(text, CurLine)

\* C10: Backspace in Insert mode at column 0 merges the line under the
\* cursor with the one before it whenever that line is not line 0, whatever
\* shift_row is, the cursor going to the former end of the line before; it
\* changes nothing only on line 0.
C10_BackspaceMergesLines ==
  [][ /\ run = "running" /\ mode = "Insert" /\ ev' = Backspace
      /\ cursor_col = 0 /\ LineValid
      => IF CurLine # 0
           THEN /\ len_lines(text') = len_lines(text) - 1
                /\ shift_row' + cursor_row' = CurLine - 1
                /\ cursor_col' = line_max(text, CurLine - 1)
           ELSE UNCHANGED <<text, cursor_row, cursor_col, shift_row>> ]_vars

\* C11: :q! terminates the session from every state, dirty or not, and
\* writes nothing.
C11_ForceQuitTerminates ==
  [][ Executes({W_FORCE}) =>
        /\ run' = "terminated"
        /\ io' = "none"
        /\ disk' = disk ]_vars

C11_Witness ==
  /\ ev = Enter /\ run = "terminated" /\ dirty
  /\ cmd_message = W_FORCE
  /\ filename # None /\ disk[filename[1]] # Some(text)

\* C12: leaving Command mode without terminating (Enter, Esc, or Backspace
\* on the bare ':') puts cursor_row and cursor_col back to their values at
\* the ':' that entered it, and the buffer text and shift_row are those of
\* that moment.  Stated step by step: ':' saves the cursor, no step taken in
\* Command mode changes the saved cursor, the text or shift_row, and the
\* step that leaves sets the cursor to the saved one.
C12_LeavingCommandRestoresCursor ==
  [][ /\ mode = "Normal" /\ mode' = "Command" =>
           /\ prev_cursor_row' = cursor_row
           /\ prev_cursor_col' = cursor_col
           /\ text' = text /\ shift_row' = shift_row
      /\ mode = "Command" =>
           /\ prev_cursor_row' = prev_cursor_row
           /\ prev_cursor_col' = prev_cursor_col
           /\ text' = text /\ shift_row' = shift_row
      /\ mode = "Command" /\ mode' # "Command" /\ run' # "terminated" =>
           /\ cursor_row' = prev_cursor_row
           /\ cursor_col' = prev_cursor_col ]_vars

C12_Witness ==
  /\ ev = Esc /\ run = "running" /\ mode = "Normal"
  /\ prev_cursor_row = 1 /\ prev_cursor_col = 0
  /\ cursor_row = prev_cursor_row /\ cursor_col = prev_cursor_col
  /\ cmd_message = <<>> /\ prefered_col = None /\ text = <<NL>>

\* C13: Backspace in Command mode deletes the char before the cursor in the
\* command buffer, and when that leaves only the leading ':' the editor
\* goes to Normal mode with the saved cursor; the leading ':' is never
\* deleted while the mode is Command.
C13_BackspaceAbortsWhenReduced ==
  [][ /\ run = "running" /\ mode = "Command" /\ ev' = Backspace
      /\ Len(cmd_message) > 1 /\ cursor_col = Len(cmd_message)
      => LET d == remove(cmd_message, cursor_col - 1, cursor_col)
         IN /\ d = <<":">> => /\ mode' = "Normal"
                              /\ cursor_row' = prev_cursor_row
                              /\ cursor_col' = prev_cursor_col
            /\ d # <<":">> => mode' = "Command" /\ cmd_message' = d
            /\ mode' = "Command" => Head(cmd_message') = ":" ]_vars

\* C13, amended: Backspace in Command mode with more than the leading ':'
\* in the command buffer deletes the char before the cursor and stays in
\* Command mode, also when only the ':' is left; Backspace on the bare ':'
\* goes to Normal mode with the saved cursor; the leading ':' is never
\* deleted while the mode is Command.
C13_BackspaceAbortsOnBareColon ==
  [][ run = "running" /\ mode = "Command" /\ ev' = Backspace =>
        IF cmd_message = <<":">>
          THEN /\ mode' = "Normal" /\ run' = "running"
               /\ cursor_row' = prev_cursor_row
               /\ cursor_col' = prev_cursor_col
          ELSE /\ mode' = "Command" /\ run' = "running"
               /\ cmd_message' = remove(cmd_message, cursor_col - 1, cursor_col)
               /\ cursor_col' = cursor_col - 1
               /\ Head(cmd_message') = ":" ]_vars

C13_Witness ==
  /\ ev = Backspace /\ run = "running" /\ mode = "Command"
  /\ cmd_message = <<":">> /\ cursor_col = 1

\* C14: a command line whose first word is none of :w, :write, :q, :quit,
\* :q!, :wq sets the message to "Unrecognized command " followed by the
\* command text as typed, goes to Normal mode, does not terminate and
\* leaves the buffer, dirty and the file path unchanged.
C14_UnknownCommandEchoed ==
  [][ /\ run = "running" /\ mode = "Command" /\ ev' = Enter
      /\ split_whitespace(cmd_message) # <<>>
      /\ split_whitespace(cmd_message)[1]
            \notin {W_W, W_WRITE, W_Q, W_QUIT, W_FORCE, W_WQ}
      => /\ cmd_message' = <<"Unrecognized command ">> \o cmd_message
         /\ mode' = "Normal"
         /\ run' = "running"
         /\ text' = text /\ dirty' = dirty /\ filename' = filename
         /\ disk' = disk /\ io' = "none" ]_vars

C14_Witness ==
  /\ ev = Enter /\ run = "running" /\ mode = "Normal" /\ dirty
  /\ cmd_message = <<"Unrecognized command ", ":", "x", " ">>

\* C16: j in Normal mode with the cursor on the last visible text row
\* advances shift_row by one whenever a buffer line exists below the line
\* under the cursor, and changes nothing otherwise.
C16_JScrollsWhileLinesBelow ==
  [][ /\ run = "running" /\ mode = "Normal" /\ ev' = Key("j")
      /\ cursor_row = rows - 1 - COMMAND_VIEW_ROWS
      /\ LineValid
      => IF shift_row + cursor_row + 1 < len_lines(text)
           THEN shift_row' = shift_row + 1 /\ cursor_row' = cursor_row
           ELSE UNCHANGED edvars ]_vars

\* C17: with the terminal size fixed, in every Normal or Insert state
\* cursor_row is a row of the visible text area: 0 <= cursor_row < rows - 2.
C17_CursorRowVisible ==
  mode \in {"Normal", "Insert"} =>
    0 <= cursor_row /\ cursor_row < rows - COMMAND_VIEW_ROWS

\* C18: a key without a transition in the current mode, and every resize
\* event, leave the whole editor state unchanged: text, cursor, shift_row,
\* mode, command/status text, dirty, file path and the preferred column.
C18_IgnoredEventsChangeNothing ==
  [][ run = "running" /\ (ev' \in IgnoredKeys \/ ev' = Resize) =>
        UNCHANGED <<edvars, prefered_col>> ]_vars

\* C18, amended: such a key and every resize event leave text, cursor,
\* shift_row, mode, command/status text, dirty and file path unchanged; the
\* preferred column is kept by a resize and by a key that is not a
\* character, and cleared by a character key.
C18_IgnoredEventsKeepEditor ==
  [][ run = "running" /\ (ev' \in IgnoredKeys \/ ev' = Resize) =>
        /\ UNCHANGED edvars
        /\ run' = "running"
        /\ prefered_col' = IF ev'[1] = "Char" THEN None ELSE prefered_col ]_vars

C18_Witness ==
  /\ ev = Enter /\ run = "running" /\ mode = "Normal"
  /\ prefered_col # None /\ cursor_row > 0

\* C19: in every Command-mode state of the running editor the command
\* buffer is non-empty, its first character is ':' and cursor_col is the
\* number of characters in the buffer, so the indices used by the Command
\* arms are in range.
C19_CommandBufferInvariant ==
  run = "running" /\ mode = "Command" =>
    /\ len_chars(cmd_message) >= 1
    /\ cmd_message[1] = ":"
    /\ cursor_col = len_chars(cmd_message)

C19_Witness ==
  /\ run = "running" /\ mode = "Command" /\ ev = Backspace
  /\ len_chars(cmd_message) >= 3

\* C20: in every Normal or Insert state of the running editor whose cursor
\* line exists, cursor_col is at most the length of that line; so the offset
\* an insertion uses is at most the number of characters of the text, and
\* the offset a Backspace that is not ignored removes before is at least 1.
C20_CursorColInLine ==
  run = "running" /\ mode \in {"Normal", "Insert"} /\ LineValid =>
    /\ cursor_col <= line_max(text, CurLine)
    /\ cursor_pos(cursor_col) <= len_chars(text)
    /\ ~backspace_ignored => cursor_pos(cursor_col) >= 1

C20_Witness ==
  /\ run = "running" /\ mode = "Normal" /\ LineValid
  /\ ev = Key("j") /\ cursor_row > 0
  /\ prefered_col # None /\ prefered_col[1] > cursor_col
  /\ cursor_col = line_max(text, CurLine)

\* C15: in Insert mode, inserting a character or a line break and then
\* pressing Backspace restores the text, cursor_row and cursor_col to what
\* they were before the insertion.
C15_InsertThenBackspaceRestores ==
  [][ /\ run = "running" /\ mode = "Insert"
      /\ ev \in Insertions /\ pre_insert # None
      /\ ev' = Backspace
      => /\ run' = "running"
         /\ text' = pre_insert[1][1]
         /\ cursor_row' = pre_insert[1][2]
         /\ cursor_col' = pre_insert[1][3] ]_vars

C15_Witness ==
  /\ run = "running" /\ mode = "Insert" /\ ev = Backspace
  /\ pre_insert # None
  /\ text = pre_insert[1][1] /\ len_lines(text) = 1
  /\ cursor_row = pre_insert[1][2] /\ cursor_col = pre_insert[1][3]
  /\ cursor_col >= 1
====
